---------------------------- MODULE Spec2Model ----------------------------
(***************************************************************************)
(* Model of builder/src/chunkdict_generator.rs (nydus):                    *)
(*   - BlobNodeReader           : the bounded range reader                 *)
(*   - Generator::generate      : validate_and_remove_chunks, insert_chunks*)
(*                                and build_child_tree                     *)
(*   - Generator::generate_prefetch : the prefetch blob builder            *)
(* One specification per entry point: SpecReader, SpecChunkdict (generate) *)
(* and Spec (generate_prefetch); SpecBuilders runs either builder, and     *)
(* SpecIndex runs either builder over inputs long enough to use up the     *)
(* chunk index space, at the reduced width IndexWidth.  A component that   *)
(* is not running under a specification sits idle.                         *)
(***************************************************************************)
EXTENDS Integers, Sequences, FiniteSets, TLC

VARIABLES
    \* ---- BlobNodeReader over one file handle
    rd_file,        \* bytes of the file behind the Arc<File>
    rd_fpos,        \* the file handle's own position
    reader,         \* BlobNodeReader {start, end, position}
    rd_last,        \* the last read(buf) call: its arguments and its result
    rd_total,       \* bytes returned over the reader's lifetime
    \* ---- Generator::generate
    chunkdict_chunks_origin,  \* Vec<ChunkdictChunkInfo> handed to generate
    chunkdict_blobs,          \* Vec<ChunkdictBlobInfo> handed to generate
    v6_block_size,            \* ctx.v6_block_size()
    chunkdict_chunks,         \* the working copy that is filtered
    blob_mgr,                 \* BlobManager: the blob contexts, by blob index
    node,                     \* the chunkdict file node
    gen_pc,                   \* position in generate
    gen_index,                \* insert_chunks' loop index
    \* ---- Generator::generate_prefetch
    blobtable,                \* the incoming RafsV6BlobTable's entries
    files,                    \* blobs_dir_path: file name -> bytes
    tree,                     \* the tree: path -> node
    file_nodes_prefetch,      \* ctx.prefetch.get_file_nodes(), as paths
    prefetch_nodes,           \* the prefetch_nodes argument, as paths
    overflow_checks,          \* the build panics on integer overflow
    pf_pc,                    \* position in generate_prefetch
    node_i,                   \* nodes of file_nodes_prefetch done
    chunk_j,                  \* chunks of the current node done
    child,                    \* the clone of the current node (line 252)
    repacked,                 \* per written chunk: where from, bytes, result
    prefetch_blob_info,       \* BlobInfo of the new blob
    prefetch_blob_ctx,        \* BlobContext of the new blob
    chunk_count,
    prefetch_blob_offset,
    meta_uncompressed_size,
    chunk_index_in_prefetch,
    blob_table_withprefetch,  \* entries of the table built at line 332
    prefetch_build_ctx,       \* prefetch_build_ctx.blob_id
    dumped                    \* what bootstrap.dump was handed, if called

readerVars == <<rd_file, rd_fpos, reader, rd_last, rd_total>>
genVars == <<chunkdict_chunks_origin, chunkdict_blobs, v6_block_size,
             chunkdict_chunks, blob_mgr, node, gen_pc, gen_index>>
pfVars == <<blobtable, files, tree, file_nodes_prefetch, prefetch_nodes,
            overflow_checks, pf_pc, node_i, chunk_j, child, repacked, prefetch_blob_info, prefetch_blob_ctx,
            chunk_count, prefetch_blob_offset, meta_uncompressed_size,
            chunk_index_in_prefetch, blob_table_withprefetch,
            prefetch_build_ctx, dumped>>

(***************************************************************************)
(* Bounds of the model.                                                    *)
(***************************************************************************)
MaxFileLen == 3
MaxOff == 3
MaxBuf == 3
MaxDictChunks == 3
MaxChunks == 2
\* the width of a chunk index, standing for the 32 bits of a u32
IndexWidth == 3
\* chunks per run where the index space is exhausted
MaxIndexChunks == 9

(***************************************************************************)
(* Program constants.                                                      *)
(***************************************************************************)
\* size_of::<BlobChunkInfoV1Ondisk>(): two u64 words
RecordSize == 16
\* the alignment of align_to_4k and try_round_up_4k
Alignment == 4096
\* 0x200, the constant header size added to meta_ci_offset
HeaderSize == 512

\* the number of u32 values, u32::MAX and i32::MAX at the reduced width
IndexSpace == 2 ^ IndexWidth
MaxIndex == IndexSpace - 1
CountMax == 2 ^ (IndexWidth - 1) - 1
\* the number of usize values, twice the width of a u32
UsizeSpace == 2 ^ (2 * IndexWidth)

Min(a, b) == IF a < b THEN a ELSE b
Max(a, b) == IF a > b THEN a ELSE b
SeqsUpTo(S, n) == UNION {[1..k -> S] : k \in 0..n}

(***************************************************************************)
(* std::fs::File                                                           *)
(***************************************************************************)
\* <File as Read>::read on a regular file: the bytes from the handle's
\* position, as many as were asked for or as the file still holds.
FileRead(data, fpos, n) ==
    LET avail == Max(0, Len(data) - fpos)
        cnt == Min(n, avail)
    IN  SubSeq(data, fpos + 1, fpos + cnt)

(***************************************************************************)
(* BlobNodeReader                                                          *)
(***************************************************************************)
BlobNodeReaderNewAtZero(start, end) ==
    [start |-> start, end |-> end, position |-> 0]

\* BlobNodeReader::new: position starts at start; the caller's handle is
\* moved there by seek(SeekFrom::Start(start)).
BlobNodeReaderNew(start, end) ==
    [start |-> start, end |-> end, position |-> start]

ReaderReadUnbounded(r, fpos, data, buflen) ==
    IF r.position > r.end
    THEN [reader |-> r, fpos |-> fpos, bytes |-> <<>>]
    ELSE LET got == FileRead(data, fpos, buflen)
         IN  [reader |-> [r EXCEPT !.position = @ + Len(got)],
              fpos |-> fpos + Len(got),
              bytes |-> got]

\* <BlobNodeReader as Read>::read with a buffer of buflen bytes.
ReaderRead(r, fpos, data, buflen) ==
    IF r.position > r.end
    THEN [reader |-> r, fpos |-> fpos, bytes |-> <<>>]
    ELSE LET max_read == r.end - r.position
             to_read == Min(buflen, max_read)
             got == FileRead(data, fpos, to_read)
         IN  [reader |-> [r EXCEPT !.position = @ + Len(got)],
              fpos |-> fpos + Len(got),
              bytes |-> got]

ReadOnce(r, fpos, data, remaining, acc) ==
    [ok |-> TRUE, bytes |-> acc \o ReaderRead(r, fpos, data, remaining).bytes]

\* std::io::Read::read_exact over the reader: read until the buffer is full;
\* a read of 0 bytes before that is ErrorKind::UnexpectedEof.
RECURSIVE ReadExactLoop(_, _, _, _, _)
ReadExactLoop(r, fpos, data, remaining, acc) ==
    IF remaining = 0
    THEN [ok |-> TRUE, bytes |-> acc]
    ELSE LET res == ReaderRead(r, fpos, data, remaining)
         IN  IF Len(res.bytes) = 0
             THEN [ok |-> FALSE, bytes |-> acc]
             ELSE ReadExactLoop(res.reader, res.fpos, data,
                                remaining - Len(res.bytes), acc \o res.bytes)

NoCall == [called |-> FALSE, buflen |-> 0, position |-> 0, fpos |-> 0,
           bytes |-> <<>>]

ReaderIdle ==
    /\ rd_file = <<>>
    /\ rd_fpos = 0
    /\ reader = BlobNodeReaderNew(0, 0)
    /\ rd_last = NoCall
    /\ rd_total = 0

\* A file of any length up to MaxFileLen (byte i holds 10 + i) and a reader
\* constructed over any range, start > end included.
ReaderInit ==
    /\ \E len \in 0..MaxFileLen : rd_file = [i \in 1..len |-> 10 + i]
    /\ \E start \in 0..MaxOff, end \in 0..MaxOff :
          /\ reader = BlobNodeReaderNew(start, end)
          /\ rd_fpos = start
    /\ rd_last = NoCall
    /\ rd_total = 0

\* One call of read(buf), buf.len() = buflen.
Read(buflen) ==
    LET res == ReaderRead(reader, rd_fpos, rd_file, buflen)
    IN  /\ reader' = res.reader
        /\ rd_fpos' = res.fpos
        /\ rd_last' = [called |-> TRUE, buflen |-> buflen,
                       position |-> reader.position, fpos |-> rd_fpos,
                       bytes |-> res.bytes]
        /\ rd_total' = rd_total + Len(res.bytes)
        /\ UNCHANGED <<rd_file, genVars, pfVars>>

ReaderNext == \E buflen \in 0..MaxBuf : Read(buflen)

(***************************************************************************)
(* Generator::generate: validate_and_remove_chunks                         *)
(***************************************************************************)
BlobIds == {"A", "B"}

\* ChunkdictChunkInfo; image_reference and version are provenance only.
ChunkInputs ==
    [image_reference : {"img"}, version : {"v6"},
     chunk_blob_id : BlobIds, chunk_digest : {"d1", "d2"},
     chunk_compressed_size : {300}, chunk_uncompressed_size : {512, 2048},
     chunk_compressed_offset : {4096}, chunk_uncompressed_offset : {8192}]

\* the first loop: *chunk_sizes.entry(id).or_insert(0) += size, over the
\* first n chunks
RECURSIVE ChunkSizes(_, _)
ChunkSizes(chunks, n) ==
    IF n = 0
    THEN [id \in {} |-> 0]
    ELSE LET prev == ChunkSizes(chunks, n - 1)
             id == chunks[n].chunk_blob_id
             old == IF id \in DOMAIN prev THEN prev[id] ELSE 0
         IN  [k \in DOMAIN prev \cup {id} |->
                IF k = id THEN old + chunks[n].chunk_uncompressed_size
                ELSE prev[k]]

SmallChunksInclusive(chunks, min_size) ==
    LET chunk_sizes == ChunkSizes(chunks, Len(chunks))
    IN  {id \in DOMAIN chunk_sizes : chunk_sizes[id] <= min_size}

\* the ids whose total is below the block size (the filter on chunk_sizes)
SmallChunks(chunks, min_size) ==
    LET chunk_sizes == ChunkSizes(chunks, Len(chunks))
    IN  {id \in DOMAIN chunk_sizes : chunk_sizes[id] < min_size}

ValidateAndRemoveChunksGrouped(chunks, min_size) ==
    LET small_chunks == SmallChunks(chunks, min_size)
    IN  SelectSeq(chunks, LAMBDA c : c.chunk_blob_id = "A"
                                     /\ c.chunk_blob_id \notin small_chunks)
        \o SelectSeq(chunks, LAMBDA c : c.chunk_blob_id # "A"
                                        /\ c.chunk_blob_id \notin small_chunks)

\* retain with small_chunks as the Vec collected from the map, in the order
\* the map's iterator gave
RetainNotContained(chunks, small_chunks) ==
    SelectSeq(chunks, LAMBDA c :
        ~\E i \in 1..Len(small_chunks) : small_chunks[i] = c.chunk_blob_id)

\* chunkdict.retain(|chunk| !small_chunks.contains(&chunk.chunk_blob_id))
ValidateAndRemoveChunks(chunks, min_size) ==
    LET small_chunks == SmallChunks(chunks, min_size)
    IN  SelectSeq(chunks, LAMBDA c : c.chunk_blob_id \notin small_chunks)

(***************************************************************************)
(* Generator::generate: insert_chunks and build_child_tree                 *)
(***************************************************************************)
\* ChunkdictBlobInfo of one source blob
BlobInfoOf(id) ==
    [blob_id |-> id, blob_compressed_size |-> 8192,
     blob_uncompressed_size |-> 16384, blob_compressor |-> "zstd",
     blob_meta_ci_compressed_size |-> 48,
     blob_meta_ci_uncompressed_size |-> 64,
     blob_meta_ci_offset |-> 8192]

\* the blob descriptor lists handed to generate: one that covers every
\* source blob, one that lacks blob "B"
BlobInfoInputs == { <<BlobInfoOf("A"), BlobInfoOf("B")>>, <<BlobInfoOf("A")>> }

\* BlobManager::new_blob_ctx as insert_chunks first sees it
NewBlobCtx(id) ==
    [blob_id |-> id, blob_compressor |-> "none",
     current_compressed_offset |-> 0, current_uncompressed_offset |-> 0,
     compressed_blob_size |-> 0, uncompressed_blob_size |-> 0,
     chunk_count |-> 0,
     ci_compressed_size |-> 0, ci_uncompressed_size |-> 0,
     ci_compressed_offset |-> 0, ci_compressor |-> "none"]

\* BlobManager::get_blob_idx_by_id, as a position in blob_mgr (0: none)
BlobIdxById(mgr, id) ==
    IF \E i \in 1..Len(mgr) : mgr[i].blob_id = id
    THEN CHOOSE i \in 1..Len(mgr) : mgr[i].blob_id = id
    ELSE 0

\* BlobManager::get_or_cerate_blob_for_chunkdict: the manager with a context
\* for id, created at the end when there was none
GetOrCreateBlobForChunkdict(mgr, id) ==
    IF BlobIdxById(mgr, id) = 0 THEN Append(mgr, NewBlobCtx(id)) ELSE mgr

FindBlobInfoOrFirst(blobs, id) ==
    IF \E i \in 1..Len(blobs) : blobs[i].blob_id = id
    THEN CHOOSE i \in 1..Len(blobs) : blobs[i].blob_id = id
    ELSE 1

\* chunkdict_blobs.iter().find(|blob| blob.blob_id == id): a position, 0: None
FindBlobInfo(blobs, id) ==
    IF \E i \in 1..Len(blobs) : blobs[i].blob_id = id
    THEN CHOOSE i \in 1..Len(blobs) :
            /\ blobs[i].blob_id = id
            /\ \A j \in 1..(i - 1) : blobs[j].blob_id # id
    ELSE 0

\* lines 598-610: the offsets and the meta header sizes of the blob context
AdvanceBlobCtx(blob_ctx, chunk_info) ==
    LET pre_d_offset == blob_ctx.current_uncompressed_offset
        ci_u == blob_ctx.ci_uncompressed_size + RecordSize
    IN  [blob_ctx EXCEPT
            !.uncompressed_blob_size =
                pre_d_offset + chunk_info.chunk_uncompressed_size,
            !.current_uncompressed_offset =
                @ + chunk_info.chunk_uncompressed_size,
            !.ci_uncompressed_size = ci_u,
            !.ci_compressed_size = ci_u + RecordSize]

CopyBlobInfoCompressorOnly(blob_ctx, info) ==
    [blob_ctx EXCEPT
        !.blob_compressor = info.blob_compressor,
        !.ci_compressed_offset = info.blob_meta_ci_offset,
        !.ci_compressor = "zstd"]

\* lines 615-626: the blob descriptor's fields copied onto the blob context
CopyBlobInfo(blob_ctx, info) ==
    [blob_ctx EXCEPT
        !.blob_compressor = info.blob_compressor,
        !.ci_uncompressed_size = info.blob_meta_ci_uncompressed_size,
        !.ci_compressed_size = info.blob_meta_ci_compressed_size,
        !.ci_compressed_offset = info.blob_meta_ci_offset,
        !.ci_compressor = "zstd"]

\* BlobContext::alloc_chunk_index: Err when the index space is exhausted
AllocOverflows(blob_ctx) == blob_ctx.chunk_count >= MaxIndex

\* BlobContext::alloc_chunk_index: the index handed out
AllocChunkIndex(blob_ctx) == blob_ctx.chunk_count

\* RafsDigest::from_string: the digest the descriptor's string spells
RafsDigestFromString(digest) == [data |-> digest]

DictChunkFromAccumulator(index, blob_index, chunk_index, chunk_info) ==
    [blob_index |-> blob_index,
     index |-> chunk_index,
     file_offset |-> index * chunk_info.chunk_compressed_size,
     compressed_size |-> chunk_info.chunk_compressed_size,
     compressed_offset |-> chunk_index * chunk_info.chunk_compressed_size,
     uncompressed_size |-> chunk_info.chunk_uncompressed_size,
     uncompressed_offset |-> chunk_index * chunk_info.chunk_uncompressed_size,
     id |-> RafsDigestFromString(chunk_info.chunk_digest)]

\* lines 629-637: the ChunkWrapper built for one descriptor
DictChunk(index, blob_index, chunk_index, chunk_info) ==
    [blob_index |-> blob_index,
     index |-> chunk_index,
     file_offset |-> index * chunk_info.chunk_compressed_size,
     compressed_size |-> chunk_info.chunk_compressed_size,
     compressed_offset |-> chunk_info.chunk_compressed_offset,
     uncompressed_size |-> chunk_info.chunk_uncompressed_size,
     uncompressed_offset |-> chunk_info.chunk_uncompressed_offset,
     id |-> RafsDigestFromString(chunk_info.chunk_digest)]

EmptyNode == [chunks |-> <<>>, size |-> 0, child_count |-> 0]

GenIdle ==
    /\ chunkdict_chunks_origin = <<>>
    /\ chunkdict_blobs = <<>>
    /\ v6_block_size = 0
    /\ chunkdict_chunks = <<>>
    /\ blob_mgr = <<>>
    /\ node = EmptyNode
    /\ gen_pc = "idle"
    /\ gen_index = 0

\* generate's state on entry, lines 124-130
GenLocals ==
    /\ chunkdict_chunks = chunkdict_chunks_origin
    /\ blob_mgr = <<>>
    /\ node = EmptyNode
    /\ gen_pc = "validate"
    /\ gen_index = 0

\* generate is entered with any chunk list of up to MaxDictChunks chunks,
\* either blob descriptor list, and a block size of 512 or 4096.
GenInit ==
    /\ chunkdict_chunks_origin \in SeqsUpTo(ChunkInputs, MaxDictChunks)
    /\ chunkdict_blobs \in BlobInfoInputs
    /\ v6_block_size \in {512, 4096}
    /\ GenLocals

\* generate, lines 131-133
Validate ==
    /\ gen_pc = "validate"
    /\ chunkdict_chunks' = ValidateAndRemoveChunks(chunkdict_chunks, v6_block_size)
    /\ gen_pc' = "insert"
    /\ UNCHANGED <<chunkdict_chunks_origin, chunkdict_blobs, v6_block_size,
                   blob_mgr, node, gen_index, readerVars, pfVars>>

\* one iteration of insert_chunks' loop
InsertChunk ==
    /\ gen_pc = "insert"
    /\ gen_index < Len(chunkdict_chunks)
    /\ LET chunk_info == chunkdict_chunks[gen_index + 1]
           mgr == GetOrCreateBlobForChunkdict(blob_mgr, chunk_info.chunk_blob_id)
           pos == BlobIdxById(mgr, chunk_info.chunk_blob_id)
           advanced == AdvanceBlobCtx(mgr[pos], chunk_info)
           found == FindBlobInfo(chunkdict_blobs, chunk_info.chunk_blob_id)
       IN  IF found = 0
           THEN \* .unwrap() on None panics
                /\ blob_mgr' = [mgr EXCEPT ![pos] = advanced]
                /\ gen_pc' = "aborted"
                /\ UNCHANGED <<node, gen_index>>
           ELSE LET copied == CopyBlobInfo(advanced, chunkdict_blobs[found])
                    chunk_index == AllocChunkIndex(copied)
                    chunk == DictChunk(gen_index, pos - 1, chunk_index, chunk_info)
                IN  IF AllocOverflows(copied)
                    THEN \* alloc_chunk_index()? returns the error
                         /\ blob_mgr' = [mgr EXCEPT ![pos] = copied]
                         /\ gen_pc' = "failed"
                         /\ UNCHANGED <<node, gen_index>>
                    ELSE /\ blob_mgr' = [mgr EXCEPT ![pos] =
                                [copied EXCEPT
                                    !.chunk_count = (@ + 1) % IndexSpace]]
                         /\ node' = [node EXCEPT !.chunks = Append(@, chunk)]
                         /\ gen_index' = gen_index + 1
                         /\ UNCHANGED gen_pc
    /\ UNCHANGED <<chunkdict_chunks_origin, chunkdict_blobs, v6_block_size,
                   chunkdict_chunks, readerVars, pfVars>>

RECURSIVE SumUncompressed(_, _)
SumUncompressed(chunks, n) ==
    IF n = 0 THEN 0
    ELSE SumUncompressed(chunks, n - 1) + chunks[n].uncompressed_size

\* build_child_tree, lines 566-580, after insert_chunks returned Ok
BuildChildTree ==
    /\ gen_pc = "insert"
    /\ gen_index = Len(chunkdict_chunks)
    /\ node' = [node EXCEPT
                  !.size = SumUncompressed(node.chunks, Len(node.chunks)),
                  !.child_count = Len(node.chunks)]
    /\ gen_pc' = "built"
    /\ UNCHANGED <<chunkdict_chunks_origin, chunkdict_blobs, v6_block_size,
                   chunkdict_chunks, blob_mgr, gen_index, readerVars, pfVars>>

GenNext == Validate \/ InsertChunk \/ BuildChildTree

(***************************************************************************)
(* Generator::generate_prefetch                                            *)
(***************************************************************************)
Placeholder == "Prefetch-blob"

\* a BlobInfo of the incoming blob table
SourceBlobInfo(blob_index, blob_id) ==
    [blob_index |-> blob_index, blob_id |-> blob_id,
     uncompressed_size |-> 16384, compressed_size |-> 8192,
     chunk_count |-> 4, compressor |-> "zstd",
     meta_ci_offset |-> 8192, meta_ci_compressed_size |-> 64,
     meta_ci_uncompressed_size |-> 64]

\* BlobInfo::new(blob_layer_num, "Prefetch-blob", 0, 0, chunk_size, u32::MAX, ..)
\* chunk_count starts as u32::MAX, written -1 here (beyond TLC's integers);
\* line 327 overwrites it before anything reads it.
NewPrefetchBlobInfo(blob_layer_num) ==
    [blob_index |-> blob_layer_num, blob_id |-> Placeholder,
     uncompressed_size |-> 0, compressed_size |-> 0,
     chunk_count |-> -1, compressor |-> "none",
     meta_ci_offset |-> 0, meta_ci_compressed_size |-> 0,
     meta_ci_uncompressed_size |-> 0]

\* BlobContext::from(ctx, &prefetch_blob_info, ..), chunk_count reset to 0
NewPrefetchBlobCtx ==
    [blob_id |-> Placeholder,
     current_compressed_offset |-> 0, current_uncompressed_offset |-> 0,
     compressed_blob_size |-> 0, uncompressed_blob_size |-> 0,
     chunk_count |-> 0, blob_hash |-> <<>>, blob_meta_info_enabled |-> TRUE]

\* the blob tables generate_prefetch is entered with, as blob ids
BlobTableInputs == { <<"A">>, <<"A", "B">>, <<"A", Placeholder>> }

\* the source blob files of blobs_dir_path
SourceFiles == [id \in {"A", "B"} |->
                  IF id = "A" THEN <<10, 11>> ELSE <<20, 21, 22>>]

\* the compressed byte ranges of the chunks in the tree
CompressedRanges == { [offset |-> 0, size |-> 1], [offset |-> 1, size |-> 2] }

\* a chunk of the tree before the pass
TreeChunk(blob_index, range, uncompressed_size) ==
    [blob_index |-> blob_index, index |-> 5,
     compressed_offset |-> range.offset, compressed_size |-> range.size,
     uncompressed_offset |-> 20480, uncompressed_size |-> uncompressed_size]

TreeChunkInputs ==
    { TreeChunk(b, r, u) : b \in 0..1, r \in CompressedRanges,
                           u \in {100, 4096, 5000} }

Paths == {"/a", "/b"}

SelectionInputs == { <<>>, <<"/a">>, <<"/a", "/b">>, <<"/b", "/a">> }

\* the prefetch_nodes argument: the list ctx.prefetch holds, or another one
PrefetchNodesInputs(selected) == { selected, <<"/b">> }

\* align_to_4k
AlignTo4kIdentity(offset) == offset
AlignTo4kNextPage(offset) == (offset \div Alignment + 1) * Alignment

AlignTo4k(offset) ==
    LET remainder == offset % Alignment
    IN  IF remainder = 0 THEN offset ELSE offset + (Alignment - remainder)

\* nydus_utils::try_round_up_4k
TryRoundUp4k(x) == ((x + Alignment - 1) \div Alignment) * Alignment

NextChunkIndexSkip(i) == (i + 2) % IndexSpace

\* chunk_index_in_prefetch += 1 on a u32, where the addition is not checked
NextChunkIndex(i) == (i + 1) % IndexSpace

\* chunk_count += 1 on an i32, where the addition is not checked
NextChunkCount(n) == IF n = CountMax THEN 0 - CountMax - 1 ELSE n + 1

\* chunk_count as usize, of an i32
AsUsize(n) == IF n < 0 THEN UsizeSpace + n ELSE n

\* lines 315-322: the meta ci sizes of prefetch_blob_info after one chunk
MetaCiAfterChunkChained(info) ==
    LET u == info.meta_ci_uncompressed_size + RecordSize
    IN  [info EXCEPT !.meta_ci_uncompressed_size = u,
                     !.meta_ci_compressed_size = u + RecordSize]

MetaCiAfterChunk(info) ==
    [info EXCEPT
        !.meta_ci_uncompressed_size = info.meta_ci_uncompressed_size + RecordSize,
        !.meta_ci_compressed_size = info.meta_ci_compressed_size + RecordSize]

HashUpdateSkip(hash, buf) == hash

\* blob_hash.update(&buf)
HashUpdate(hash, buf) == hash \o buf

\* finalize_blob with an empty ctx.blob_id: the id is the hex digest of the
\* blob hash
FinalizeBlobId(blob_ctx) == "sha256:" \o ToString(blob_ctx.blob_hash)

\* get_node_reader (and lines 253-260) on one node: first().unwrap(),
\* blob_ids.get(index).unwrap(), File::open(..).unwrap()
NodeReaderPanics(table, fs, n) ==
    \/ Len(n.chunks) = 0
    \/ n.chunks[1].blob_index >= Len(table)
    \/ table[n.chunks[1].blob_index + 1].blob_id \notin DOMAIN fs

NoChild == [path |-> "", blob_file |-> "", layer_idx |-> 0, chunks |-> <<>>]
NotDumped == [called |-> FALSE, tree |-> <<>>, blob_table |-> <<>>]

PfIdle ==
    /\ blobtable = <<>>
    /\ files = <<>>
    /\ tree = <<>>
    /\ file_nodes_prefetch = <<>>
    /\ prefetch_nodes = <<>>
    /\ overflow_checks = FALSE
    /\ pf_pc = "idle"
    /\ node_i = 0
    /\ chunk_j = 0
    /\ child = NoChild
    /\ repacked = <<>>
    /\ prefetch_blob_info = NewPrefetchBlobInfo(0)
    /\ prefetch_blob_ctx = NewPrefetchBlobCtx
    /\ chunk_count = 0
    /\ prefetch_blob_offset = 0
    /\ meta_uncompressed_size = 0
    /\ chunk_index_in_prefetch = 0
    /\ blob_table_withprefetch = <<>>
    /\ prefetch_build_ctx = [blob_id |-> Placeholder]
    /\ dumped = NotDumped

\* lines 178-194 and 230-245: the locals before the first node
PfLocals ==
    /\ pf_pc = "created"
    /\ node_i = 0
    /\ chunk_j = 0
    /\ child = NoChild
    /\ repacked = <<>>
    /\ prefetch_blob_info = NewPrefetchBlobInfo(Len(blobtable))
    /\ prefetch_blob_ctx = NewPrefetchBlobCtx
    /\ chunk_count = 0
    /\ prefetch_blob_offset = 0
    /\ meta_uncompressed_size = 0
    /\ chunk_index_in_prefetch = 0
    /\ blob_table_withprefetch = <<>>
    /\ prefetch_build_ctx = [blob_id |-> Placeholder]
    /\ dumped = NotDumped

\* generate_prefetch is entered with a blob table, the source blob files, a
\* tree of two file nodes holding up to MaxChunks chunks, and a prefetch
\* list; the loop over the prefetch_nodes argument (165-176) only logs.
\* No addition overflows within MaxChunks chunks, so the builds with and
\* without overflow checks run alike: the one without is taken.
PfInit ==
    /\ \E ids \in BlobTableInputs :
          blobtable = [i \in 1..Len(ids) |-> SourceBlobInfo(i - 1, ids[i])]
    /\ files = SourceFiles
    /\ \E t \in [Paths -> SeqsUpTo(TreeChunkInputs, MaxChunks)] :
          /\ Len(t["/a"]) + Len(t["/b"]) <= MaxChunks
          /\ tree = [p \in Paths |-> [chunks |-> t[p]]]
    /\ file_nodes_prefetch \in SelectionInputs
    /\ prefetch_nodes \in PrefetchNodesInputs(file_nodes_prefetch)
    /\ overflow_checks = FALSE
    /\ PfLocals

\* lines 216-239: get_node_reader over the prefetch list, then File::create
\* of the new blob file
Start ==
    /\ pf_pc = "created"
    /\ IF \E k \in 1..Len(file_nodes_prefetch) :
             NodeReaderPanics(blobtable, files, tree[file_nodes_prefetch[k]])
       THEN /\ pf_pc' = "aborted"
            /\ UNCHANGED files
       ELSE /\ pf_pc' = "writing"
            /\ files' = [id \in DOMAIN files \cup {Placeholder} |->
                           IF id = Placeholder THEN <<>> ELSE files[id]]
    /\ UNCHANGED <<blobtable, tree, file_nodes_prefetch, prefetch_nodes,
                   overflow_checks, node_i, chunk_j, child, repacked, prefetch_blob_info, prefetch_blob_ctx,
                   chunk_count, prefetch_blob_offset, meta_uncompressed_size,
                   chunk_index_in_prefetch, blob_table_withprefetch,
                   prefetch_build_ctx, dumped, readerVars, genVars>>

\* lines 251-261: the clone of the node and the source blob file it opens
NodeEntry(path) ==
    LET chunks == tree[path].chunks
        index == chunks[1].blob_index
    IN  [path |-> path,
         blob_file |-> blobtable[index + 1].blob_id,
         layer_idx |-> prefetch_blob_info.blob_index,
         chunks |-> chunks]

\* lines 262-323: one chunk of the current node
WriteChunk ==
    /\ pf_pc = "writing"
    /\ node_i < Len(file_nodes_prefetch)
    /\ LET cur == IF chunk_j = 0 THEN NodeEntry(file_nodes_prefetch[node_i + 1])
                  ELSE child
           inner == cur.chunks[chunk_j + 1]
           rd == BlobNodeReaderNew(inner.compressed_offset,
                    inner.compressed_offset + inner.compressed_size)
           got == ReadExactLoop(rd, inner.compressed_offset,
                    files[cur.blob_file], inner.compressed_size, <<>>)
           buf == got.bytes
           updated == [inner EXCEPT
                          !.blob_index = prefetch_blob_info.blob_index,
                          !.index = chunk_index_in_prefetch,
                          !.compressed_offset = prefetch_blob_offset,
                          !.uncompressed_offset = prefetch_blob_offset]
           last == chunk_j + 1 = Len(cur.chunks)
       IN  IF overflow_checks /\ chunk_count = CountMax
           THEN \* chunk_count += 1 panics
                /\ pf_pc' = "aborted"
                /\ child' = cur
                /\ UNCHANGED <<files, node_i, chunk_j, repacked, chunk_count,
                               prefetch_blob_info, prefetch_blob_ctx,
                               prefetch_blob_offset, meta_uncompressed_size,
                               chunk_index_in_prefetch>>
           ELSE
           /\ chunk_count' = NextChunkCount(chunk_count)
           /\ IF ~got.ok
              THEN \* read_exact(buf).unwrap() panics
                   /\ pf_pc' = "aborted"
                   /\ child' = cur
                   /\ UNCHANGED <<files, node_i, chunk_j, repacked,
                                  prefetch_blob_info, prefetch_blob_ctx,
                                  prefetch_blob_offset, meta_uncompressed_size,
                                  chunk_index_in_prefetch>>
              ELSE IF overflow_checks /\ chunk_index_in_prefetch = MaxIndex
              THEN \* chunk_index_in_prefetch += 1 panics, the bytes written
                   /\ pf_pc' = "aborted"
                   /\ files' = [files EXCEPT ![Placeholder] = @ \o buf]
                   /\ child' = [cur EXCEPT !.chunks[chunk_j + 1] =
                          [inner EXCEPT
                              !.blob_index = prefetch_blob_info.blob_index,
                              !.index = chunk_index_in_prefetch]]
                   /\ UNCHANGED <<node_i, chunk_j, repacked,
                                  prefetch_blob_info, prefetch_blob_ctx,
                                  prefetch_blob_offset, meta_uncompressed_size,
                                  chunk_index_in_prefetch>>
              ELSE /\ files' = [files EXCEPT ![Placeholder] = @ \o buf]
                   /\ child' = [cur EXCEPT !.chunks[chunk_j + 1] = updated]
                   /\ chunk_index_in_prefetch' =
                          NextChunkIndex(chunk_index_in_prefetch)
                   /\ prefetch_blob_ctx' = [prefetch_blob_ctx EXCEPT
                          !.uncompressed_blob_size =
                              @ + TryRoundUp4k(inner.uncompressed_size),
                          !.current_compressed_offset = @ + inner.compressed_size,
                          !.compressed_blob_size = @ + inner.compressed_size,
                          !.blob_hash = HashUpdate(@, buf),
                          !.chunk_count = (@ + 1) % IndexSpace]
                   /\ prefetch_blob_offset' =
                          AlignTo4k(prefetch_blob_offset + inner.uncompressed_size)
                   /\ meta_uncompressed_size' =
                          meta_uncompressed_size + inner.uncompressed_size
                   /\ prefetch_blob_info' = MetaCiAfterChunk(prefetch_blob_info)
                   /\ repacked' = Append(repacked,
                          [path |-> cur.path, pos |-> chunk_j + 1,
                           blob_file |-> cur.blob_file, source |-> inner,
                           buf |-> buf, chunk |-> updated])
                   /\ node_i' = IF last THEN node_i + 1 ELSE node_i
                   /\ chunk_j' = IF last THEN 0 ELSE chunk_j + 1
                   /\ UNCHANGED pf_pc
    /\ UNCHANGED <<blobtable, tree, file_nodes_prefetch, prefetch_nodes,
                   overflow_checks, blob_table_withprefetch, prefetch_build_ctx, dumped,
                   readerVars, genVars>>

AllNodesDoneEarly == TRUE

\* line 250: the loop over file_nodes_prefetch has run out
AllNodesDone == node_i = Len(file_nodes_prefetch)

\* lines 325-338: the blob's size fields, and the table with the new entry
Seal ==
    /\ pf_pc = "writing"
    /\ AllNodesDone
    /\ prefetch_blob_info' = [prefetch_blob_info EXCEPT
          !.meta_ci_offset = HeaderSize + meta_uncompressed_size,
          !.chunk_count = AsUsize(chunk_count),
          !.compressed_size = prefetch_blob_offset,
          !.uncompressed_size = prefetch_blob_offset,
          !.compressor = "zstd"]
    /\ blob_table_withprefetch' = Append(blobtable, prefetch_blob_info')
    /\ pf_pc' = "sealed"
    /\ UNCHANGED <<blobtable, files, tree, file_nodes_prefetch,
                   prefetch_nodes, overflow_checks, node_i, chunk_j, child, repacked, prefetch_blob_ctx, chunk_count,
                   prefetch_blob_offset, meta_uncompressed_size,
                   chunk_index_in_prefetch, prefetch_build_ctx, dumped,
                   readerVars, genVars>>

\* lines 400-412: the entries with the placeholder id rewritten
RewriteEntries(entries, blob_id) ==
    [i \in 1..Len(entries) |->
        IF entries[i].blob_id = Placeholder
        THEN [entries[i] EXCEPT !.blob_id = blob_id]
        ELSE entries[i]]

\* lines 341-418: finalize_blob yields the blob id, the table entries are
\* rewritten, and the tree and the table are dumped
Commit ==
    /\ pf_pc = "sealed"
    /\ prefetch_build_ctx' = [blob_id |-> FinalizeBlobId(prefetch_blob_ctx)]
    /\ prefetch_blob_ctx' = [prefetch_blob_ctx EXCEPT
          !.blob_id = prefetch_build_ctx'.blob_id]
    /\ blob_table_withprefetch' =
          RewriteEntries(blob_table_withprefetch, prefetch_build_ctx'.blob_id)
    /\ dumped' = [called |-> TRUE, tree |-> tree,
                  blob_table |-> blob_table_withprefetch']
    /\ pf_pc' = "committed"
    /\ UNCHANGED <<blobtable, files, tree, file_nodes_prefetch,
                   prefetch_nodes, overflow_checks, node_i, chunk_j, child, repacked, prefetch_blob_info, chunk_count,
                   prefetch_blob_offset, meta_uncompressed_size,
                   chunk_index_in_prefetch, readerVars, genVars>>

PfNext == Start \/ WriteChunk \/ Seal \/ Commit

vars == <<readerVars, genVars, pfVars>>

InitReader == ReaderInit /\ GenIdle /\ PfIdle
InitChunkdict == GenInit /\ ReaderIdle /\ PfIdle
Init == PfInit /\ ReaderIdle /\ GenIdle
InitBuilders == InitChunkdict \/ Init

\* the chunks of the long prefetch runs: one or two bytes of blob A
LongRunChunks ==
    { TreeChunk(0, [offset |-> 0, size |-> 1], 4096),
      TreeChunk(0, [offset |-> 0, size |-> 2], 100) }

\* Runs long enough to exhaust the index space: generate over up to
\* MaxIndexChunks chunks of one shape in either blob, or generate_prefetch
\* over one node of up to MaxIndexChunks chunks, with or without overflow
\* checks.
InitIndex ==
    \/ /\ \E ids \in SeqsUpTo(BlobIds, MaxIndexChunks) :
              chunkdict_chunks_origin =
                  [k \in 1..Len(ids) |->
                      [image_reference |-> "img", version |-> "v6",
                       chunk_blob_id |-> ids[k], chunk_digest |-> "d1",
                       chunk_compressed_size |-> 300,
                       chunk_uncompressed_size |-> 2048,
                       chunk_compressed_offset |-> 4096,
                       chunk_uncompressed_offset |-> 8192]]
        /\ chunkdict_blobs \in BlobInfoInputs
        /\ v6_block_size = 512
        /\ GenLocals
        /\ ReaderIdle
        /\ PfIdle
    \/ /\ blobtable = <<SourceBlobInfo(0, "A")>>
        /\ files = SourceFiles
        /\ \E chunks \in SeqsUpTo(LongRunChunks, MaxIndexChunks) :
              tree = [p \in Paths |->
                        [chunks |-> IF p = "/a" THEN chunks ELSE <<>>]]
        /\ file_nodes_prefetch = <<"/a">>
        /\ prefetch_nodes = file_nodes_prefetch
        /\ overflow_checks \in BOOLEAN
        /\ PfLocals
        /\ ReaderIdle
        /\ GenIdle

Next == PfNext
NextBuilders == Validate \/ InsertChunk \/ BuildChildTree
                  \/ Start \/ WriteChunk \/ Seal \/ Commit

SpecReader == InitReader /\ [][ReaderNext]_vars
SpecChunkdict == InitChunkdict /\ [][GenNext]_vars
Spec == Init /\ [][Next]_vars
SpecBuilders == InitBuilders /\ [][NextBuilders]_vars
SpecIndex == InitIndex /\ [][NextBuilders]_vars

(***************************************************************************)
(* Properties                                                              *)
(***************************************************************************)
OriginGroup(id) ==
    SelectSeq(chunkdict_chunks_origin, LAMBDA c : c.chunk_blob_id = id)
KeptGroup(id) ==
    SelectSeq(chunkdict_chunks, LAMBDA c : c.chunk_blob_id = id)
RECURSIVE TotalUncompressed(_)
TotalUncompressed(group) ==
    IF group = <<>> THEN 0
    ELSE Head(group).chunk_uncompressed_size + TotalUncompressed(Tail(group))

BytesAt(data, offset, size) ==
    SubSeq(data, offset + 1, Min(offset + size, Len(data)))

\* C2: the bytes of the new blob file at each repacked chunk's newly
\* assigned compressed offset, for its compressed size, are the bytes read
\* from the source blob at the chunk's original offset.
C2_RoundTrip ==
    \A k \in 1..Len(repacked) :
        /\ repacked[k].buf =
              BytesAt(SourceFiles[repacked[k].blob_file],
                      repacked[k].source.compressed_offset,
                      repacked[k].source.compressed_size)
        /\ BytesAt(files[Placeholder], repacked[k].chunk.compressed_offset,
                   repacked[k].chunk.compressed_size) = repacked[k].buf

\* C3: the running offsets of generate_prefetch never decrease, and every
\* chunk is assigned an uncompressed offset that is a multiple of 4096 (0 and
\* 4096 for chunks of uncompressed size 100 and then 5000).
C3_OffsetMonotonicity ==
    /\ [][/\ prefetch_blob_offset' >= prefetch_blob_offset
          /\ prefetch_blob_ctx'.current_compressed_offset >=
                prefetch_blob_ctx.current_compressed_offset
          /\ prefetch_blob_ctx'.current_uncompressed_offset >=
                prefetch_blob_ctx.current_uncompressed_offset]_vars
    /\ [](\A k \in 1..Len(repacked) :
            /\ repacked[k].chunk.uncompressed_offset % 4096 = 0
            /\ k > 1 => repacked[k].chunk.uncompressed_offset >=
                          repacked[k - 1].chunk.uncompressed_offset
                            + repacked[k - 1].chunk.uncompressed_size
            /\ (k = 2 /\ repacked[1].chunk.uncompressed_size = 100) =>
                  /\ repacked[1].chunk.uncompressed_offset = 0
                  /\ repacked[2].chunk.uncompressed_offset = 4096)

C3_Witness ==
    /\ Len(repacked) = 2
    /\ repacked[1].chunk.uncompressed_size = 100
    /\ repacked[2].chunk.uncompressed_size = 5000
    /\ repacked[2].chunk.uncompressed_offset = 4096
    /\ prefetch_blob_offset = 12288

\* the chunks of the chunkdict node bound to blob index b
DictChunksOf(b) == SelectSeq(node.chunks, LAMBDA c : c.blob_index = b)

C5_IdentifierCommit ==
    dumped.called =>
        /\ \A i \in 1..Len(dumped.blob_table) :
              dumped.blob_table[i].blob_id # Placeholder
        /\ Cardinality({i \in 1..Len(dumped.blob_table) :
              dumped.blob_table[i].blob_id = prefetch_build_ctx.blob_id}) = 1

\* C6: in the tree handed to the serializer every repacked chunk carries the
\* new blob index, chunk index and offsets, and the chunks of the nodes that
\* were not selected are as they were.
C6_TreeUpdatedInPlace ==
    dumped.called =>
        /\ \A k \in 1..Len(repacked) :
              dumped.tree[repacked[k].path].chunks[repacked[k].pos] =
                  repacked[k].chunk
        /\ \A p \in Paths :
              (\A k \in 1..Len(file_nodes_prefetch) : file_nodes_prefetch[k] # p)
                  => dumped.tree[p] = tree[p]

\* C7: once the prefetch blob is sealed, its header record has
\* meta_ci_uncompressed_size = chunk_count * size_of(BlobChunkInfoV1Ondisk)
\* and meta_ci_compressed_size = meta_ci_uncompressed_size.
C7_HeaderConsistency ==
    pf_pc \in {"sealed", "committed"} =>
        LET header == blob_table_withprefetch[Len(blob_table_withprefetch)]
        IN  /\ header.chunk_count = Len(repacked)
            /\ header.meta_ci_uncompressed_size = header.chunk_count * RecordSize
            /\ header.meta_ci_compressed_size = header.meta_ci_uncompressed_size
            /\ prefetch_blob_info.meta_ci_uncompressed_size =
                  prefetch_blob_info.chunk_count * RecordSize
            /\ prefetch_blob_info.meta_ci_compressed_size =
                  prefetch_blob_info.meta_ci_uncompressed_size

C7_Witness ==
    /\ pf_pc = "sealed"
    /\ prefetch_blob_info.chunk_count = 2
    /\ prefetch_blob_info.meta_ci_compressed_size = 32

\* the table as it stands when the rewrite of lines 400-412 starts
TableAtCommit == Append(blobtable, prefetch_blob_info)

\* C8: identifiers are rewritten and metadata is dumped only when exactly
\* one entry of the table carried the placeholder identifier at commit time.
C8_PlaceholderExactlyOnce ==
    pf_pc = "committed" =>
        Cardinality({i \in 1..Len(TableAtCommit) :
            TableAtCommit[i].blob_id = Placeholder}) = 1

\* the source blob file line 259 opens for a node of the tree
NodeBlobFile(n) == blobtable[n.chunks[1].blob_index + 1].blob_id

\* C9: the pass reaches the seal and commit steps only if the first chunk's
\* blob index of every selected node resolves in the blob table and every
\* chunk read returned the chunk's declared compressed size; otherwise it
\* aborts, and nothing is rewritten or dumped.
C9_FatalReads ==
    (pf_pc \in {"sealed", "committed"} \/ dumped.called
        \/ blob_table_withprefetch # <<>>) =>
        \A k \in 1..Len(file_nodes_prefetch) :
            LET n == tree[file_nodes_prefetch[k]]
            IN  /\ n.chunks # <<>>
                /\ n.chunks[1].blob_index < Len(blobtable)
                /\ NodeBlobFile(n) \in DOMAIN SourceFiles
                /\ \A j \in 1..Len(n.chunks) :
                      Len(BytesAt(SourceFiles[NodeBlobFile(n)],
                                  n.chunks[j].compressed_offset,
                                  n.chunks[j].compressed_size))
                          = n.chunks[j].compressed_size

\* the second chunk's read came short after the first chunk was written
C9_Witness ==
    /\ pf_pc = "aborted"
    /\ Len(repacked) = 1
    /\ chunk_count = 2
    /\ ~dumped.called

\* C10 as stated: a read past end returns 0 bytes; any other read returns
\* exactly min(buf.len(), end - cursor) bytes and advances the cursor by that.
C10_ReadExactlyMin ==
    rd_last.called =>
        IF rd_last.position > reader.end
        THEN Len(rd_last.bytes) = 0 /\ reader.position = rd_last.position
        ELSE /\ Len(rd_last.bytes) =
                   Min(rd_last.buflen, reader.end - rd_last.position)
             /\ reader.position = rd_last.position + Len(rd_last.bytes)

\* C10, amended: a read past end returns 0 bytes; any other read returns the
\* bytes the file holds at the handle's position, min(buf.len(), end - cursor)
\* of them or as many as the file still has, and advances the cursor by the
\* number returned.
C10_ReadUpToMin ==
    rd_last.called =>
        IF rd_last.position > reader.end
        THEN Len(rd_last.bytes) = 0 /\ reader.position = rd_last.position
        ELSE LET want == Min(rd_last.buflen, reader.end - rd_last.position)
             IN  /\ rd_last.bytes = BytesAt(rd_file, rd_last.fpos, want)
                 /\ Len(rd_last.bytes) =
                       Min(want, Max(0, Len(rd_file) - rd_last.fpos))
                 /\ reader.position = rd_last.position + Len(rd_last.bytes)
                 /\ rd_fpos = rd_last.fpos + Len(rd_last.bytes)

\* a read clamped by end: 2 bytes asked beyond what the range still holds
C10_Witness ==
    /\ rd_last.called
    /\ rd_last.position < reader.end
    /\ Len(rd_last.bytes) > 0
    /\ Len(rd_last.bytes) = reader.end - rd_last.position
    /\ Len(rd_last.bytes) < rd_last.buflen

\* C11: build_child_tree's file node holds one chunk per validated
\* descriptor, in the list's order, each with its descriptor's digest, sizes
\* and offsets; the node's size is the sum of its chunks' uncompressed sizes
\* and its child count is its chunk count.
C11_ChildTreeMirrorsList ==
    gen_pc = "built" =>
        /\ Len(node.chunks) = Len(chunkdict_chunks)
        /\ \A k \in 1..Len(node.chunks) :
              LET c == node.chunks[k]
                  desc == chunkdict_chunks[k]
              IN  /\ c.id = RafsDigestFromString(desc.chunk_digest)
                  /\ c.compressed_size = desc.chunk_compressed_size
                  /\ c.uncompressed_size = desc.chunk_uncompressed_size
                  /\ c.compressed_offset = desc.chunk_compressed_offset
                  /\ c.uncompressed_offset = desc.chunk_uncompressed_offset
        /\ node.size = TotalUncompressed(chunkdict_chunks)
        /\ node.child_count = Len(node.chunks)

\* three chunks of two blobs with different digests and sizes
C11_Witness ==
    /\ gen_pc = "built"
    /\ Len(node.chunks) = 3
    /\ node.chunks[1].id # node.chunks[2].id
    /\ node.chunks[1].blob_index # node.chunks[2].blob_index
    /\ node.size = 2048 + 512 + 2048

\* the descriptor list has an entry for the blob id
HasBlobInfo(id) == \E i \in 1..Len(chunkdict_blobs) : chunkdict_blobs[i].blob_id = id

\* C12: insert_chunks aborts at the first chunk whose source blob id has no
\* blob descriptor: no chunk is added for it, and no tree is built; a tree is
\* built only when every chunk's blob id has a descriptor.
C12_MissingBlobInfoFatal ==
    /\ gen_pc = "aborted" =>
          /\ gen_index < Len(chunkdict_chunks)
          /\ ~HasBlobInfo(chunkdict_chunks[gen_index + 1].chunk_blob_id)
          /\ \A k \in 1..gen_index : HasBlobInfo(chunkdict_chunks[k].chunk_blob_id)
          /\ Len(node.chunks) = gen_index
          /\ node.child_count = 0 /\ node.size = 0
    /\ gen_pc \in {"insert", "built"} =>
          \A k \in 1..Len(node.chunks) : HasBlobInfo(chunkdict_chunks[k].chunk_blob_id)

\* the build aborted at the second chunk, after one chunk of blob A went in
C12_Witness ==
    /\ gen_pc = "aborted"
    /\ gen_index = 1
    /\ Len(node.chunks) = 1
    /\ chunkdict_chunks[2].chunk_blob_id = "B"

\* C13: the table handed on is the incoming table's entries, unchanged and
\* in order, followed by one prefetch entry whose blob index is the incoming
\* table's length.
C13_OneEntryAppended ==
    pf_pc \in {"sealed", "committed"} =>
        /\ Len(blob_table_withprefetch) = Len(blobtable) + 1
        /\ \A i \in 1..Len(blobtable) : blob_table_withprefetch[i] = blobtable[i]
        /\ blob_table_withprefetch[Len(blobtable) + 1].blob_index = Len(blobtable)

\* the chunks of the selected nodes, all of them
RECURSIVE SelectedChunkCount(_)
SelectedChunkCount(paths) ==
    IF paths = <<>> THEN 0
    ELSE Len(tree[Head(paths)].chunks) + SelectedChunkCount(Tail(paths))

\* the blob ids of the incoming table
IncomingIds == { blobtable[i].blob_id : i \in 1..Len(blobtable) }

\* C14: generate_prefetch goes Created, Writing, Sealed, Committed (or
\* aborts); chunks are written only while Writing; up to Sealed every
\* structure names the new blob by the placeholder; the real identifier
\* appears only at Committed, when every selected chunk has been appended and
\* hashed and the size fields are set.
C14_PlaceholderUntilCommit ==
    /\ [][ \/ pf_pc' = pf_pc
           \/ <<pf_pc, pf_pc'>> \in { <<"created", "writing">>,
                                      <<"created", "aborted">>,
                                      <<"writing", "sealed">>,
                                      <<"writing", "aborted">>,
                                      <<"sealed", "committed">> } ]_vars
    /\ [][ repacked' # repacked =>
              /\ pf_pc = "writing" /\ pf_pc' = "writing"
              /\ prefetch_build_ctx.blob_id = Placeholder
              /\ blob_table_withprefetch = <<>> ]_vars
    /\ [](pf_pc \in {"created", "writing", "sealed", "aborted"} =>
              /\ prefetch_build_ctx.blob_id = Placeholder
              /\ prefetch_blob_ctx.blob_id = Placeholder
              /\ prefetch_blob_info.blob_id = Placeholder
              /\ \A i \in 1..Len(blob_table_withprefetch) :
                    blob_table_withprefetch[i].blob_id
                        \in IncomingIds \cup {Placeholder})
    /\ [](pf_pc = "committed" =>
              /\ Len(repacked) = SelectedChunkCount(file_nodes_prefetch)
              /\ prefetch_blob_ctx.blob_hash = files[Placeholder]
              /\ prefetch_blob_info.chunk_count = Len(repacked)
              /\ prefetch_blob_info.compressed_size = prefetch_blob_offset
              /\ prefetch_blob_info.uncompressed_size = prefetch_blob_offset
              /\ prefetch_build_ctx.blob_id = FinalizeBlobId(prefetch_blob_ctx)
              /\ prefetch_build_ctx.blob_id # Placeholder
              /\ blob_table_withprefetch[Len(blobtable) + 1].blob_id
                    = prefetch_build_ctx.blob_id)

\* committed after two nodes of one chunk each
C14_Witness ==
    /\ pf_pc = "committed"
    /\ Len(file_nodes_prefetch) = 2
    /\ Len(repacked) = 2
    /\ prefetch_build_ctx.blob_id # Placeholder

\* C15: every repacked chunk was read from the blob file its own blob index
\* names in the incoming table.
C15_ReadFromOwnBlob ==
    \A k \in 1..Len(repacked) :
        LET r == repacked[k]
        IN  /\ r.source.blob_index < Len(blobtable)
            /\ r.blob_file = blobtable[r.source.blob_index + 1].blob_id

\* the chunks of a list of nodes, node by node, as <<path, position>>
RECURSIVE ChunkOrder(_)
ChunkOrder(paths) ==
    IF paths = <<>> THEN <<>>
    ELSE [k \in 1..Len(tree[Head(paths)].chunks) |-> <<Head(paths), k>>]
            \o ChunkOrder(Tail(paths))

\* C16: the chunks repacked are those of the nodes of the prefetch_nodes
\* argument, node by node in the argument's order, and the chunk indices
\* follow that order.
C16_RepacksCallerList ==
    pf_pc \in {"sealed", "committed"} =>
        /\ [k \in 1..Len(repacked) |-> <<repacked[k].path, repacked[k].pos>>]
              = ChunkOrder(prefetch_nodes)
        /\ \A k \in 1..Len(repacked) : repacked[k].chunk.index = k - 1

\* C17: while chunks are written, and when the last one has been, the bytes
\* folded into the blob hash are the bytes of the new blob file, in order.
C17_HashedStreamIsFile ==
    (pf_pc \in {"writing", "sealed"} \/
     (pf_pc = "aborted" /\ Placeholder \in DOMAIN files))
        => prefetch_blob_ctx.blob_hash = files[Placeholder]

\* two chunks written, three bytes in the file
C17_Witness ==
    /\ pf_pc = "writing"
    /\ Len(repacked) = 2
    /\ Len(files[Placeholder]) = 3
    /\ files[Placeholder] = repacked[1].buf \o repacked[2].buf

\* C18: the sealed blob's meta_ci_offset is 0x200 plus its
\* meta_ci_uncompressed_size.
C18_MetaCiOffset ==
    pf_pc \in {"sealed", "committed"} =>
        prefetch_blob_info.meta_ci_offset
            = HeaderSize + prefetch_blob_info.meta_ci_uncompressed_size

\* C19: the sealed blob's compressed size, uncompressed size and chunk count
\* are the blob context's compressed offset, uncompressed offset and chunk
\* count.
C19_SizesFromAccumulator ==
    pf_pc \in {"sealed", "committed"} =>
        /\ prefetch_blob_info.compressed_size
              = prefetch_blob_ctx.current_compressed_offset
        /\ prefetch_blob_info.uncompressed_size
              = prefetch_blob_ctx.current_uncompressed_offset
        /\ prefetch_blob_info.chunk_count = prefetch_blob_ctx.chunk_count

\* C20 as stated: after every insertion the blob context's ci sizes are its
\* chunk count times the record size.
C20_CiSizesCountRecords ==
    gen_pc \in {"insert", "built"} =>
        \A i \in 1..Len(blob_mgr) :
            /\ blob_mgr[i].ci_uncompressed_size
                  = blob_mgr[i].chunk_count * RecordSize
            /\ blob_mgr[i].ci_compressed_size
                  = blob_mgr[i].chunk_count * RecordSize

\* C20: after every insertion the blob context's ci sizes are the ones of
\* the blob descriptor of the chunk's blob id, whatever the chunk count.
C20_CiSizesCopied ==
    gen_pc \in {"insert", "built"} =>
        \A k \in 1..Len(node.chunks) :
            LET id == chunkdict_chunks[k].chunk_blob_id
                blob_ctx == blob_mgr[BlobIdxById(blob_mgr, id)]
                info == chunkdict_blobs[FindBlobInfo(chunkdict_blobs, id)]
            IN  /\ blob_ctx.ci_uncompressed_size
                      = info.blob_meta_ci_uncompressed_size
                /\ blob_ctx.ci_compressed_size
                      = info.blob_meta_ci_compressed_size

\* two chunks in one blob context, whose ci sizes are the descriptor's
C20_Witness ==
    /\ gen_pc = "insert"
    /\ \E i \in 1..Len(blob_mgr) :
          /\ blob_mgr[i].chunk_count = 2
          /\ blob_mgr[i].ci_uncompressed_size = 64
          /\ blob_mgr[i].ci_compressed_size = 48

\* the sum of a size field over the first n chunks of the list that belong
\* to blob id
RECURSIVE InsertedTotal(_, _, _)
InsertedTotal(n, id, field) ==
    IF n = 0 THEN 0
    ELSE InsertedTotal(n - 1, id, field)
         + IF chunkdict_chunks[n].chunk_blob_id = id
           THEN chunkdict_chunks[n][field] ELSE 0

\* C21: after any number of insertions, each blob context's
\* current_uncompressed_offset is the sum of the uncompressed sizes, and its
\* current_compressed_offset the sum of the compressed sizes, of the chunks
\* inserted for its blob.
C21_OffsetsAdvance ==
    gen_pc \in {"insert", "built"} =>
        \A i \in 1..Len(blob_mgr) :
            /\ blob_mgr[i].current_uncompressed_offset
                  = InsertedTotal(gen_index, blob_mgr[i].blob_id,
                                  "chunk_uncompressed_size")
            /\ blob_mgr[i].current_compressed_offset
                  = InsertedTotal(gen_index, blob_mgr[i].blob_id,
                                  "chunk_compressed_size")

\* C22: no builder hands out, within one blob, a chunk index it has handed
\* out before: when the index space is used up the run stops instead.
C22_NoIndexReuse ==
    /\ \A j, k \in 1..Len(repacked) :
          j < k => repacked[j].chunk.index # repacked[k].chunk.index
    /\ \A j, k \in 1..Len(node.chunks) :
          (j < k /\ node.chunks[j].blob_index = node.chunks[k].blob_index)
              => node.chunks[j].index # node.chunks[k].index

\* the elements of seq at the positions in S, up to position n, in order
RECURSIVE Pick(_, _, _)
Pick(seq, S, n) ==
    IF n = 0 THEN <<>>
    ELSE Pick(seq, S, n - 1) \o (IF n \in S THEN <<seq[n]>> ELSE <<>>)

\* the orders in which a map's iterator can yield the ids of S
IterationOrders(S) ==
    { order \in [1..Cardinality(S) -> S] :
        \A i, j \in 1..Cardinality(S) : i # j => order[i] # order[j] }

\* C23: the list validate_and_remove_chunks leaves is its input with some
\* positions dropped, the rest unmodified and in their input order; it is
\* the same for every iteration order of the size map; filtering it again
\* with the same block size changes nothing.
C23_OrderPreservingIdempotent ==
    gen_pc \in {"insert", "built", "aborted", "failed"} =>
        /\ \E S \in SUBSET (1..Len(chunkdict_chunks_origin)) :
              chunkdict_chunks
                  = Pick(chunkdict_chunks_origin, S, Len(chunkdict_chunks_origin))
        /\ \A order \in IterationOrders(SmallChunks(chunkdict_chunks_origin,
                                                    v6_block_size)) :
              chunkdict_chunks
                  = RetainNotContained(chunkdict_chunks_origin, order)
        /\ ValidateAndRemoveChunks(chunkdict_chunks, v6_block_size)
              = chunkdict_chunks

\* the middle chunk of three was removed, the two of the other blob kept
C23_Witness ==
    /\ gen_pc = "insert"
    /\ Len(chunkdict_chunks_origin) = 3
    /\ chunkdict_chunks
          = <<chunkdict_chunks_origin[1], chunkdict_chunks_origin[3]>>
    /\ chunkdict_chunks_origin[1].chunk_blob_id = "B"
    /\ chunkdict_chunks_origin[1] # chunkdict_chunks_origin[3]

\* C24: for a reader made with start <= end, after any reads with buffers of
\* any length, start <= position <= end, the position has never gone back,
\* and the bytes returned so far number at most end - start.
C24_ReaderStaysInRange ==
    /\ [](reader.start <= reader.end =>
              /\ reader.start <= reader.position
              /\ reader.position <= reader.end
              /\ rd_total <= reader.end - reader.start
              /\ rd_total = reader.position - reader.start)
    /\ [][reader.start <= reader.end =>
              /\ reader'.position >= reader.position
              /\ reader'.start = reader.start
              /\ reader'.end = reader.end]_vars

\* a reader over [1, 3) read to its end in two calls, then asked again
C24_Witness ==
    /\ reader.start = 1
    /\ reader.end = 3
    /\ reader.position = 3
    /\ rd_total = 2
    /\ rd_last.called
    /\ rd_last.position = 3
    /\ rd_last.buflen > 0
    /\ rd_last.bytes = <<>>

\* the sum of the 4 KiB-rounded uncompressed sizes of the first n chunks
\* repacked, as they were in the tree
RECURSIVE RepackedRounded(_)
RepackedRounded(n) ==
    IF n = 0 THEN 0
    ELSE RepackedRounded(n - 1)
         + TryRoundUp4k(repacked[n].source.uncompressed_size)

\* the sum of their compressed sizes
RECURSIVE RepackedCompressed(_)
RepackedCompressed(n) ==
    IF n = 0 THEN 0
    ELSE RepackedCompressed(n - 1) + repacked[n].source.compressed_size

=============================================================================
